---- MODULE Spec2Model ----
(***************************************************************************)
(* A model of one statsd-proxy worker: the mio event loop handler `Proxy`  *)
(* (src/src/event_loop.rs), its health connections, the consistent-hash    *)
(* ring it owns and the socket calls it makes (src/src/socket.rs).         *)
(*                                                                         *)
(* Bytes are natural numbers, byte strings are sequences of bytes.         *)
(***************************************************************************)
EXTENDS Integers, Sequences, FiniteSets, TLC

(***************************************************************************)
(* Bounds of the model.                                                    *)
(***************************************************************************)
\* longest datagram a peer puts on the wire
MaxLen == 4
\* length of the ingress scratch buffer (vec![0;4096] in the program, scaled)
ReadBufLen == 3
\* longest key looked up when two rings are compared
MaxKeyLen == 2
\* healthy replies the backends send, all together, before they stop sending them
MaxSuccess == 1
\* seconds the clock advances in one step, and the last instant modelled
ClockStep == 32
MaxNow == 40

(***************************************************************************)
(* Program constants.                                                      *)
(***************************************************************************)
COLON == 58
REPLICAS == 20
COOL_DOWN == 30
FAILURE_LIMIT == 2

\* b"health\r\n"
HEALTH_PACKET == <<104, 101, 97, 108, 116, 104, 13, 10>>
\* b"health: up"
HEALTH_UP == <<104, 101, 97, 108, 116, 104, 58, 32, 117, 112>>
\* b"health: down", a reply of an unhealthy backend
HEALTH_DOWN == <<104, 101, 97, 108, 116, 104, 58, 32, 100, 111, 119, 110>>

(***************************************************************************)
(* Option values: Ok(Some(x)) / Some(x) is <<x>>, None is <<>>.            *)
(***************************************************************************)
None == <<>>
Some(x) == <<x>>

Min(S) == CHOOSE x \in S : \A y \in S : x <= y

(***************************************************************************)
(* Backend descriptors (ServerNode) and their ring names.                  *)
(***************************************************************************)
RECURSIVE Decimal(_)
\* the decimal digits of n, as `{}` formats an integer
Decimal(n) == IF n < 10 THEN <<48 + n>> ELSE Decimal(n \div 10) \o <<48 + (n % 10)>>

\* ServerNode::new: one sending socket per descriptor, aimed at (host, port)
ServerNode(h, p, a, fd) ==
    [host |-> h, port |-> p, adminport |-> a,
     sock |-> [fd |-> fd, target |-> <<h, p>>]]

\* the configured backends (the `nodes` of the configuration file): two statsd
\* instances on one host, 10.0.0.1:8125 and 10.0.0.1:8127
HOST == <<49, 48, 46, 48, 46, 48, 46, 49>>
Nodes == << ServerNode(HOST, 8125, 8135, 3), ServerNode(HOST, 8127, 8137, 4) >>
\* A descriptor never changes and every clone of it is equal to it: the ring and
\* the connections hold a descriptor as its index in Nodes.
NodeIds == [i \in 1 .. Len(Nodes) |-> i]

\* a slip: the port is left out of the name
name_HostOnly(node) == Nodes[node].host

\* Node::name: format!("{}:{}", host, port)
name(node) == Nodes[node].host \o <<COLON>> \o Decimal(Nodes[node].port)

(***************************************************************************)
(* The consistent-hash ring (crate conhash, described in the spec's 4.2):  *)
(* a sorted map from virtual positions to descriptors, and the replica     *)
(* count of each member.  The hash is a stand-in streaming hash (multiply- *)
(* and-add on a 16-bit space) used for placement and for lookup alike.     *)
(***************************************************************************)
HashSpace == 2 ^ 16
HASH_BASIS == 40389
HASH_PRIME == 31421

RECURSIVE HashFrom(_, _)
HashFrom(h, s) ==
    IF s = <<>> THEN h ELSE HashFrom(((h + Head(s)) * HASH_PRIME) % HashSpace, Tail(s))

Hash(s) == HashFrom(HASH_BASIS, s)

\* the position of replica i of the node called nm
VirtualPos(nm, i) == Hash(nm \o <<COLON>> \o Decimal(i))

EmptyRing == [nodes |-> << >>, replicas |-> << >>]

RingRemove(r, node) ==
    LET nm == name(node) IN
    IF nm \notin DOMAIN r.replicas THEN r
    ELSE LET dead == {VirtualPos(nm, i) : i \in 0 .. r.replicas[nm] - 1} IN
         [nodes    |-> [p \in DOMAIN r.nodes \ dead |-> r.nodes[p]],
          replicas |-> [n \in DOMAIN r.replicas \ {nm} |-> r.replicas[n]]]

RingAdd(r, node, k) ==
    LET nm  == name(node)
        r1  == RingRemove(r, node)
        new == {VirtualPos(nm, i) : i \in 0 .. k - 1} IN
    [nodes    |-> [p \in DOMAIN r1.nodes \cup new |->
                      IF p \in new THEN node ELSE r1.nodes[p]],
     replicas |-> [n \in DOMAIN r1.replicas \cup {nm} |->
                      IF n = nm THEN k ELSE r1.replicas[n]]]

\* the descriptor of the first virtual position >= Hash(key), wrapping around
RingGet(r, key) ==
    IF DOMAIN r.nodes = {} THEN None
    ELSE LET h  == Hash(key)
             ge == {p \in DOMAIN r.nodes : p >= h} IN
         IF ge # {} THEN Some(r.nodes[Min(ge)])
         ELSE Some(r.nodes[Min(DOMAIN r.nodes)])

RingHas(r, node) == name(node) \in DOMAIN r.replicas

(***************************************************************************)
(* Rust slices and the byte-string helpers the handlers use.               *)
(***************************************************************************)
\* buf[a..b]
Slice(buf, a, b) == SubSeq(buf, a + 1, b)

\* data.starts_with(prefix)
StartsWith(data, prefix) ==
    /\ Len(data) >= Len(prefix)
    /\ SubSeq(data, 1, Len(prefix)) = prefix

\* a slip: the last ':' is taken instead of the first
Position_Last(packet) ==
    LET hits == {i \in 1 .. Len(packet) : packet[i] = COLON} IN
    IF hits = {} THEN None
    ELSE Some((CHOOSE i \in hits : \A j \in hits : i >= j) - 1)

\* packet.iter().position(|x| *x == b':')
Position(packet) ==
    LET hits == {i \in 1 .. Len(packet) : packet[i] = COLON} IN
    IF hits = {} THEN None ELSE Some(Min(hits) - 1)

(***************************************************************************)
(* The worker's state.                                                     *)
(*   ring         Proxy.ring                                               *)
(*   health_conns Proxy.health_conns: token -> Connection (the 1 KiB probe *)
(*                buffer is left out: only buf[0..n], the bytes just read, *)
(*                is ever looked at)                                       *)
(*   read_buf     Proxy.read_buf                                           *)
(*   registered   the event loop's registration of each token's socket    *)
(*   timers       the number of pending TIMEOUT timers                     *)
(*   now          the clock, in seconds since the worker started           *)
(*   alive        FALSE once a handler has panicked                        *)
(*   calls        the socket, ring-lookup and event-loop calls made by the *)
(*                handler that ran last, in order                          *)
(*   hist         for each observed connection, a record of the replies    *)
(*                seen so far                                              *)
(*   threads      Manager.threads: the workers started side by side, when  *)
(*                several are looked at together (empty otherwise)         *)
(*   sockets      the kernel's sockets of those workers, by descriptor     *)
(***************************************************************************)
VARIABLES ring, health_conns, read_buf, registered, timers, now, alive, calls, hist,
          threads, sockets

vars == <<ring, health_conns, read_buf, registered, timers, now, alive, calls, hist,
          threads, sockets>>

SERVER == 0
\* Slab::new_starting_at(mio::Token(1), 1024): one token per configured node
Tokens == 1 .. Len(Nodes)

READABLE == {"readable"}
WRITABLE == {"writable"}
\* mio::EventSet::all()
ALL == {"readable", "writable", "error", "hup"}

is_readable(events) == "readable" \in events
is_error(events) == "error" \in events
is_hup(events) == "hup" \in events

\* a registration: the interest asked for, edge or oneshot, and whether an
\* event can still be delivered (a oneshot registration is disarmed by the
\* event it delivers, until it is registered again)
Registration(interest, opt) == [interest |-> interest, opt |-> opt, armed |-> TRUE]
Fired(reg) == IF reg.opt = "oneshot" THEN [reg EXCEPT !.armed = FALSE] ELSE reg

\* the events the loop can deliver for a registration: error and hup are
\* reported whatever the interest
EventSets == {{"readable"}, {"writable"}, {"error"}, {"hup"}, {"readable", "hup"}}
Deliverable(reg) ==
    IF reg.armed
    THEN {ev \in EventSets : ev \ {"error", "hup"} \subseteq reg.interest}
    ELSE {}

(***************************************************************************)
(* Connection (event_loop.rs 24..124).                                     *)
(***************************************************************************)
\* Connection::new
NewConnection(node, token) ==
    [stream     |-> [shut |-> FALSE],
     failure    |-> 0,
     success    |-> 0,
     next_retry |-> 0,
     token      |-> token,
     state      |-> "Writing",
     node       |-> node]

\* Connection::reregister: the interest that goes with the state
StateInterest(state) ==
    CASE state = "Reading" -> READABLE
      [] state = "Writing" -> WRITABLE
      [] OTHER -> {}

\* what stream.read(&mut self.buf) can give: Ok(Some(0)), Ok(Some(n)) with the
\* n bytes of a reply, Ok(None), Err(e)
Replies == {HEALTH_UP, HEALTH_UP \o <<13, 10>>, HEALTH_DOWN, Slice(HEALTH_UP, 0, 6)}
ReadResults ==
    {[kind |-> "zero"], [kind |-> "notready"], [kind |-> "err"]}
        \cup {[kind |-> "data", data |-> d] : d \in Replies}

IsReply(rr) == rr.kind = "data"
IsUp(rr) == IsReply(rr) /\ StartsWith(rr.data, HEALTH_UP)
IsDown(rr) == IsReply(rr) /\ ~StartsWith(rr.data, HEALTH_UP)

\* a slip: the failure is not counted
on_error_Uncounted(conn) == [conn EXCEPT !.stream = [shut |-> TRUE]]

\* Connection::on_error
on_error(conn) ==
    [conn EXCEPT !.failure = @ + 1, !.stream = [shut |-> TRUE]]

\* Connection::on_read, for the result rr of the read
on_read(conn, rr) ==
    IF IsReply(rr)
    THEN IF ~StartsWith(rr.data, HEALTH_UP)
         THEN [conn EXCEPT !.failure = @ + 1]
         ELSE [conn EXCEPT !.success = @ + 1]
    ELSE conn

\* a slip: writable is armed again as soon as the reply has been read
ready_RearmsAfterRead(conn, reg, events, rr) ==
    LET errhup == is_error(events) \/ is_hup(events)
        c1     == IF errhup THEN [on_error(conn) EXCEPT !.state = "Closed"] ELSE conn
        k1     == IF errhup THEN << <<"shutdown", conn.token>> >> ELSE << >>
    IN  CASE c1.state = "Closed" ->
               [conn |-> c1, reg |-> reg, calls |-> k1]
          [] c1.state = "Writing" ->
               [conn  |-> [c1 EXCEPT !.state = "Reading"],
                reg   |-> Registration(StateInterest("Reading"), "oneshot"),
                calls |-> k1 \o << <<"send", conn.token, HEALTH_PACKET>>,
                                   <<"reregister", conn.token, StateInterest("Reading")>> >>]
          [] c1.state = "Reading" ->
               [conn  |-> [on_read(c1, rr) EXCEPT !.state = "Writing"],
                reg   |-> Registration(StateInterest("Writing"), "oneshot"),
                calls |-> k1 \o << <<"recv", conn.token>>,
                                   <<"reregister", conn.token, StateInterest("Writing")>> >>]

\* Connection::ready: the connection, its registration and the calls made
ready(conn, reg, events, rr) ==
    LET errhup == is_error(events) \/ is_hup(events)
        c1     == IF errhup THEN [on_error(conn) EXCEPT !.state = "Closed"] ELSE conn
        k1     == IF errhup THEN << <<"shutdown", conn.token>> >> ELSE << >>
    IN  CASE c1.state = "Closed" ->
               [conn |-> c1, reg |-> reg, calls |-> k1]
          [] c1.state = "Writing" ->
               [conn  |-> [c1 EXCEPT !.state = "Reading"],
                reg   |-> Registration(StateInterest("Reading"), "oneshot"),
                calls |-> k1 \o << <<"send", conn.token, HEALTH_PACKET>>,
                                   <<"reregister", conn.token, StateInterest("Reading")>> >>]
          [] c1.state = "Reading" ->
               [conn  |-> [on_read(c1, rr) EXCEPT !.state = "Writing"],
                reg   |-> reg,
                calls |-> k1 \o << <<"recv", conn.token>> >>]

\* the record of replies: bad_run counts the successive replies that do not
\* start with "health: up"; due says that a tick has run since the third of
\* them; up_ticks counts the ticks since the first healthy reply of a backend
\* that is absent from the ring (-1: none yet); writes counts the probes written
\* since the last tick and verdicts what failure + success grew by since then
NoHist == [bad_run |-> 0, due |-> FALSE, up_ticks |-> -1, writes |-> 0, verdicts |-> 0]

HistRead(h, conn, rr, r) ==
    IF conn.state # "Reading" THEN h
    ELSE IF IsUp(rr)
         THEN [h EXCEPT !.bad_run = 0, !.due = FALSE,
                        !.up_ticks = IF @ = -1 /\ ~RingHas(r, conn.node) THEN 0 ELSE @]
    ELSE IF IsDown(rr)
         THEN [h EXCEPT !.bad_run = IF @ > FAILURE_LIMIT THEN @ ELSE @ + 1,
                        !.up_ticks = -1]
    ELSE h

\* what the handler of an event adds to the record: out is what ready gave
HistReady(h, conn, out) ==
    [h EXCEPT !.writes = @ + Cardinality({i \in DOMAIN out.calls : out.calls[i][1] = "send"}),
              !.verdicts = @ + (out.conn.failure + out.conn.success)
                             - (conn.failure + conn.success)]

HistTick(h) ==
    [h EXCEPT !.due = (h.bad_run > FAILURE_LIMIT) \/ @,
              !.up_ticks = IF @ >= 0 /\ @ <= MaxSuccess THEN @ + 1 ELSE @,
              !.writes = 0,
              !.verdicts = 0]

RECURSIVE Successes(_, _)
\* the healthy replies counted so far by the connections from..Len(Nodes)
Successes(conns, from) ==
    IF from > Len(Nodes) THEN 0 ELSE conns[from].success + Successes(conns, from + 1)

(***************************************************************************)
(* Handler::ready for a health connection's token.                         *)
(***************************************************************************)
\* a slip: the backend is taken out of the ring by the error event itself
ConnReady_EvictsAtOnce(c, events, rr) ==
    /\ alive
    /\ events \in Deliverable(registered[c])
    /\ (is_error(events) \/ is_hup(events) \/ health_conns[c].state # "Reading")
           => rr = [kind |-> "notready"]
    /\ LET errhup == is_error(events) \/ is_hup(events)
           out    == ready(health_conns[c], Fired(registered[c]), events, rr) IN
       /\ health_conns' = [health_conns EXCEPT ![c] = out.conn]
       /\ registered' = [registered EXCEPT ![c] = out.reg]
       /\ calls' = out.calls
       /\ ring' = IF errhup THEN RingRemove(ring, health_conns[c].node) ELSE ring
    /\ UNCHANGED <<read_buf, timers, now, alive, hist, threads, sockets>>

ConnReady(c, events, rr) ==
    /\ alive
    /\ events \in Deliverable(registered[c])
    \* a read result is drawn only when the handler reads
    /\ (is_error(events) \/ is_hup(events) \/ health_conns[c].state # "Reading")
           => rr = [kind |-> "notready"]
    \* the backends send at most MaxSuccess healthy replies
    /\ IsUp(rr) => Successes(health_conns, 1) < MaxSuccess
    /\ LET errhup == is_error(events) \/ is_hup(events)
           out    == ready(health_conns[c], Fired(registered[c]), events, rr) IN
       /\ health_conns' = [health_conns EXCEPT ![c] = out.conn]
       /\ registered' = [registered EXCEPT ![c] = out.reg]
       /\ calls' = out.calls
       /\ hist' = [o \in DOMAIN hist |->
                     IF o # c THEN hist[o]
                     ELSE HistReady(IF errhup THEN hist[o]
                                    ELSE HistRead(hist[o], health_conns[c], rr, ring),
                                    health_conns[c], out)]
    /\ UNCHANGED <<ring, read_buf, timers, now, alive, threads, sockets>>

(***************************************************************************)
(* Handler::timeout: the tick.                                             *)
(***************************************************************************)
\* a slip: the comparison is off by one
Evicts_AtLimit(conn) == conn.failure >= FAILURE_LIMIT

\* if c.failure > 2
Evicts(conn) == conn.failure > FAILURE_LIMIT

\* a slip: the two instants are subtracted the wrong way round
CoolDownOver_Backwards(conn, t) == conn.next_retry - t > COOL_DOWN

\* duration > time::Duration::seconds(30), duration being time::now() - c.next_retry
CoolDownOver(conn, t) == t - conn.next_retry > COOL_DOWN

\* a slip: every connection that is not Closed is armed again
TickAction_RearmsAll(state) == IF state = "Closed" THEN "reconnect" ELSE "reregister"

\* match c.state: what the tick does for a connection in that state
TickAction(state) ==
    CASE state = "Closed"  -> "reconnect"
      [] state = "Writing" -> "reregister"
      [] OTHER             -> "nothing"

\* one iteration of the loop, on the loop's state st = [ring, conns, regs, calls]
TimeoutVisit(st, c, t) ==
    LET conn     == st.conns[c]
        evict    == Evicts(conn)
        ring1    == IF evict THEN RingRemove(st.ring, conn.node) ELSE st.ring
        f1       == IF evict THEN 0 ELSE conn.failure
        f2       == IF CoolDownOver(conn, t) THEN 0 ELSE f1
        c2       == [conn EXCEPT !.failure = f2]
    IN  CASE TickAction(c2.state) = "reconnect" ->
               [ring  |-> ring1,
                conns |-> [st.conns EXCEPT ![c] =
                              [c2 EXCEPT !.stream = [shut |-> FALSE], !.state = "Writing"]],
                regs  |-> [st.regs EXCEPT ![c] = Registration(ALL, "oneshot")],
                calls |-> st.calls \o << <<"socket", c>>,
                                         <<"connect", c, Nodes[conn.node].host, Nodes[conn.node].adminport>>,
                                         <<"register", c, ALL>> >>]
          [] TickAction(c2.state) = "reregister" ->
               [ring  |-> ring1,
                conns |-> [st.conns EXCEPT ![c] = c2],
                regs  |-> [st.regs EXCEPT ![c] = Registration(StateInterest(c2.state), "oneshot")],
                calls |-> st.calls \o << <<"reregister", c, StateInterest(c2.state)>> >>]
          [] OTHER ->
               [ring  |-> ring1,
                conns |-> [st.conns EXCEPT ![c] = c2],
                regs  |-> st.regs,
                calls |-> st.calls]

RECURSIVE TimeoutLoop(_, _, _)
\* for c in self.health_conns.iter_mut(): tokens from..Len(Nodes), in order
\* (the state an iteration leaves is computed once, as the one element of a set,
\* and the next iteration starts from that value)
TimeoutLoop(st, from, t) ==
    IF from > Len(Nodes) THEN st
    ELSE CHOOSE out \in {TimeoutLoop(s, from + 1, t) : s \in {TimeoutVisit(st, from, t)}} : TRUE

\* a slip: the tick does not schedule the next one
Timeout_NoRearm ==
    /\ alive
    /\ timers > 0
    /\ \E st \in {TimeoutLoop([ring |-> ring, conns |-> health_conns,
                                regs |-> registered, calls |-> << >>], 1, now)} :
       /\ ring' = st.ring
       /\ health_conns' = st.conns
       /\ registered' = st.regs
       /\ calls' = st.calls
    /\ timers' = timers - 1
    /\ hist' = [o \in DOMAIN hist |-> HistTick(hist[o])]
    /\ UNCHANGED <<read_buf, now, alive, threads, sockets>>

Timeout ==
    /\ alive
    /\ timers > 0
    /\ \E st \in {TimeoutLoop([ring |-> ring, conns |-> health_conns,
                                regs |-> registered, calls |-> << >>], 1, now)} :
       /\ ring' = st.ring
       /\ health_conns' = st.conns
       /\ registered' = st.regs
       \* event_loop.timeout_ms(TIMEOUT, self.check_interval)
       /\ calls' = st.calls \o << <<"timeout_ms">> >>
    /\ timers' = (timers - 1) + 1
    /\ hist' = [o \in DOMAIN hist |-> HistTick(hist[o])]
    /\ UNCHANGED <<read_buf, now, alive, threads, sockets>>

\* the clock advances
Elapse ==
    /\ alive
    /\ now + ClockStep <= MaxNow
    /\ now' = now + ClockStep
    /\ UNCHANGED <<ring, health_conns, read_buf, registered, timers, alive, calls, hist, threads, sockets>>

(***************************************************************************)
(* The ingress socket: Handler::ready for SERVER, Proxy::read, Proxy::parse *)
(***************************************************************************)
\* the bytes peers send: ':' and one other
Bytes == {COLON, 97}
Datagrams == UNION {[1 .. n -> Bytes] : n \in 0 .. MaxLen}
\* a datagram without ':' and a datagram with a key
SampleDatagrams == {<<97>>, <<97, COLON>>}

\* what self.server.read(&mut self.read_buf) can give: Ok(Some((n, addr))) for a
\* datagram, Ok(None), Err(e)
RecvResults(D) ==
    {[kind |-> "notready"], [kind |-> "err"]} \cup {[kind |-> "data", dgram |-> d] : d \in D}
\* what node.sock.write(packet) can give: Ok(Some(n)), Ok(None), Err(e)
SendResults == {"ok", "notready", "err"}

\* recvfrom(fd, buf): the datagram's first Len(buf) bytes land in buf, the rest
\* of the datagram is discarded, the rest of buf keeps what it held
Recvfrom(buf, dgram) ==
    LET n == IF Len(dgram) < Len(buf) THEN Len(dgram) ELSE Len(buf) IN
    [n   |-> n,
     buf |-> [i \in 1 .. Len(buf) |-> IF i <= n THEN dgram[i] ELSE buf[i]]]

\* UdpStream::write: sendto(fd, buf, target)
UdpWrite(sock, buf, sr) == <<"sendto", sock.fd, sock.target, buf, sr>>

\* a slip: the whole scratch buffer is taken for the datagram
Packet_WholeBuffer(buf, n) == buf

\* let packet = &self.read_buf[0..n]
Packet(buf, n) == Slice(buf, 0, n)

\* a slip: a send that is not ready is tried a second time
parse_Retry(buf, n, r, sr) ==
    LET packet == Packet(buf, n)
        pos    == Position(packet) IN
    IF pos = None THEN [calls |-> << >>, panic |-> FALSE]
    ELSE LET key == Slice(packet, 0, pos[1])
             got == RingGet(r, key) IN
         IF got = None
         THEN [calls |-> << <<"get", key>> >>, panic |-> FALSE]
         ELSE LET w == UdpWrite(Nodes[got[1]].sock, packet, sr) IN
              [calls |-> << <<"get", key>>, w >> \o (IF sr = "notready" THEN <<w>> ELSE << >>),
               panic |-> sr = "err"]

\* Proxy::parse: the calls made, and whether the unwrap of the send panicked
parse(buf, n, r, sr) ==
    LET packet == Packet(buf, n)
        pos    == Position(packet) IN
    IF pos = None THEN [calls |-> << >>, panic |-> FALSE]
    ELSE LET key == Slice(packet, 0, pos[1])
             got == RingGet(r, key) IN
         IF got = None
         THEN [calls |-> << <<"get", key>> >>, panic |-> FALSE]
         ELSE [calls |-> << <<"get", key>>, UdpWrite(Nodes[got[1]].sock, packet, sr) >>,
               panic |-> sr = "err"]

\* Proxy.state never changes: Proxy::reregister always asks for readable
proxy_state == "Reading"
ServerReregister == Registration(StateInterest(proxy_state), "oneshot")

\* Proxy::read
read(buf, r, reg, rr, sr) ==
    IF rr.kind = "err"
    THEN [read_buf |-> buf, reg |-> reg, calls |-> << <<"recvfrom", rr>> >>, panic |-> TRUE]
    ELSE IF rr.kind = "notready"
    THEN [read_buf |-> buf, reg |-> ServerReregister,
          calls |-> << <<"recvfrom", rr>>, <<"reregister", SERVER, StateInterest(proxy_state)>> >>,
          panic |-> FALSE]
    ELSE LET got == Recvfrom(buf, rr.dgram) IN
         IF got.n = 0
         THEN [read_buf |-> got.buf, reg |-> reg, calls |-> << <<"recvfrom", rr>> >>,
               panic |-> FALSE]
         ELSE LET p == parse(got.buf, got.n, r, sr) IN
              IF p.panic
              THEN [read_buf |-> got.buf, reg |-> reg,
                    calls |-> << <<"recvfrom", rr>> >> \o p.calls, panic |-> TRUE]
              ELSE [read_buf |-> got.buf, reg |-> ServerReregister,
                    calls |-> << <<"recvfrom", rr>> >> \o p.calls
                                 \o << <<"reregister", SERVER, StateInterest(proxy_state)>> >>,
                    panic |-> FALSE]

\* whether the handler, given rr by recvfrom, goes on to send
Sends(buf, r, rr) ==
    /\ rr.kind = "data"
    /\ LET got == Recvfrom(buf, rr.dgram) IN
       /\ got.n > 0
       /\ Len(parse(got.buf, got.n, r, "ok").calls) = 2

\* Handler::ready, token SERVER
ServerReady(events, rr, sr) ==
    /\ alive
    /\ events \in Deliverable(registered[SERVER])
    \* results are drawn only for the calls the handler makes
    /\ ~is_readable(events) => rr = [kind |-> "notready"]
    /\ ~Sends(read_buf, ring, rr) => sr = "ok"
    /\ LET reg == Fired(registered[SERVER])
           out == IF is_readable(events)
                  THEN read(read_buf, ring, reg, rr, sr)
                  \* assert!(events.is_readable())
                  ELSE [read_buf |-> read_buf, reg |-> reg, calls |-> << >>, panic |-> TRUE]
       IN /\ read_buf' = out.read_buf
          /\ registered' = [registered EXCEPT ![SERVER] = out.reg]
          /\ calls' = out.calls
          /\ alive' = ~out.panic
    /\ UNCHANGED <<ring, health_conns, timers, now, hist, threads, sockets>>

(***************************************************************************)
(* Startup (main.rs, Manager::run; Proxy::new) and the worker's steps.     *)
(***************************************************************************)
RECURSIVE RingOf(_, _)
\* for c in health_conns.iter() { ring.add(&c.node, 20) }
RingOf(r, nodes) ==
    IF nodes = << >> THEN r ELSE RingOf(RingAdd(r, Head(nodes), REPLICAS), Tail(nodes))

\* the worker as Manager::run starts it; `observed` are the connections whose
\* replies hist keeps a record of
Start(observed) ==
    /\ ring = RingOf(EmptyRing, NodeIds)
    /\ health_conns = [c \in Tokens |-> NewConnection(NodeIds[c], c)]
    /\ read_buf = [i \in 1 .. ReadBufLen |-> 0]
    /\ registered = [t \in {SERVER} \cup Tokens |->
                        IF t = SERVER
                        THEN Registration({"readable", "hup", "error"}, "edge")
                        ELSE Registration(ALL, "oneshot")]
    /\ timers = 1
    /\ now = 0
    /\ alive = TRUE
    /\ calls = << >>
    /\ hist = [c \in observed |-> NoHist]
    /\ threads = << >>
    /\ sockets = << >>

Init == Start({})

\* the health supervisor: readiness events of the health connections, the tick
\* and the clock
Next ==
    \/ \E c \in Tokens, events \in EventSets, rr \in ReadResults :
          ConnReady(c, events, rr)
    \/ Timeout
    \/ Elapse

Spec == Init /\ [][Next]_vars

\* the same, where the event loop fires a pending timer
SpecLive == Init /\ [][Next]_vars /\ WF_vars(Timeout)

\* the same, with a record kept of the replies of the first backend
SpecObserved == Start({1}) /\ [][Next]_vars

\* the dispatch of ingress datagrams
NextIngress ==
    \E events \in EventSets, rr \in RecvResults(Datagrams), sr \in SendResults :
        ServerReady(events, rr, sr)

\* the worker after the tick that evicts the backends of the connections in E,
\* each after three "health: down" replies, while the other connections wait
\* for their sockets to connect
AfterEviction(E) ==
    /\ ring = RingOf(EmptyRing, SelectSeq(NodeIds, LAMBDA n : n \notin E))
    /\ health_conns = [c \in Tokens |-> NewConnection(NodeIds[c], c)]
    /\ read_buf = [i \in 1 .. ReadBufLen |-> 0]
    /\ registered = [t \in {SERVER} \cup Tokens |->
                        IF t = SERVER
                        THEN Registration({"readable", "hup", "error"}, "edge")
                        ELSE Registration(StateInterest("Writing"), "oneshot")]
    /\ timers = 1
    /\ now = 0
    /\ alive = TRUE
    /\ calls = [c \in Tokens |-> <<"reregister", c, StateInterest("Writing")>>]
                  \o << <<"timeout_ms">> >>
    /\ hist = << >>
    /\ threads = << >>
    /\ sockets = << >>

InitIngress == \E E \in SUBSET Tokens : AfterEviction(E)

SpecIngress == InitIngress /\ [][NextIngress]_vars

\* the three handlers of one worker, at one instant of the clock: readiness
\* events of the health connections, the tick, and ingress datagrams
NextFrame ==
    \/ \E c \in Tokens, events \in EventSets, rr \in ReadResults :
          ConnReady(c, events, rr)
    \/ Timeout
    \/ \E events \in EventSets, rr \in RecvResults(SampleDatagrams), sr \in SendResults :
          ServerReady(events, rr, sr)

SpecFrame == Init /\ [][NextFrame]_vars

(***************************************************************************)
(* Several workers side by side (main.rs: main, Manager::run).  Only their *)
(* ingress handlers are followed here.                                     *)
(***************************************************************************)
\* workers started (`threads` of the configuration)
Threads == 2
\* datagrams the send buffer of a UDP socket holds; with more, sendto gives EAGAIN
SndBuf == 1

\* #[derive(Clone)] of UdpStream and Socket: the copy holds the same descriptor
Clone(sock) == [fd |-> sock.fd, target |-> sock.target]

\* the kernel's record of a socket: the datagrams waiting in its send buffer
NewSocket == [queued |-> 0]

\* the descriptors main opened before any worker started: ServerNode::new opens
\* one UDP socket for each node
NodeFds == {Nodes[n].sock.fd : n \in DOMAIN Nodes}

\* socket(): the lowest descriptor above those in use
FreeFd(socks) == 1 + (CHOOSE f \in DOMAIN socks : \A g \in DOMAIN socks : f >= g)

\* sendto(fd, buf, target, MSG_DONTWAIT) on a socket in that condition
SendResult(sock) == IF sock.queued < SndBuf THEN "ok" ELSE "notready"

\* Manager::run: the worker gets a clone of the nodes, binds its own ingress
\* socket, opens one stream for each health connection and builds its own ring
Run ==
    /\ Len(threads) < Threads
    /\ LET base   == FreeFd(sockets)
           worker == [server       |-> base,
                      nodes        |-> [n \in DOMAIN Nodes |-> Clone(Nodes[n].sock)],
                      streams      |-> [c \in Tokens |-> base + c],
                      health_conns |-> [c \in Tokens |-> NewConnection(NodeIds[c], c)],
                      ring         |-> RingOf(EmptyRing, NodeIds),
                      read_buf     |-> [i \in 1 .. ReadBufLen |-> 0],
                      registered   |-> Registration({"readable", "hup", "error"}, "edge"),
                      alive        |-> TRUE]
       IN /\ threads' = Append(threads, worker)
          /\ sockets' = [f \in DOMAIN sockets \cup (base .. base + Len(Nodes)) |->
                            IF f \in DOMAIN sockets THEN sockets[f] ELSE NewSocket]
    /\ UNCHANGED <<ring, health_conns, read_buf, registered, timers, now, alive, calls, hist>>

\* Handler::ready, token SERVER, in worker w: a send goes through the
\* descriptor of the worker's clone of the node
WorkerReady(w, rr) ==
    /\ w \in DOMAIN threads
    /\ threads[w].alive
    /\ {"readable"} \in Deliverable(threads[w].registered)
    /\ \E sr \in {"ok", "notready"}, wk \in {threads[w]} :
       \E out \in {read(wk.read_buf, wk.ring, Fired(wk.registered), rr, sr)} :
         LET sent == {out.calls[i][2] : i \in {j \in DOMAIN out.calls : out.calls[j][1] = "sendto"}}
         IN /\ sent \subseteq {wk.nodes[n].fd : n \in DOMAIN wk.nodes}
            /\ \A f \in sent : sr = SendResult(sockets[f])
            /\ sent = {} => sr = "ok"
            /\ threads' = [threads EXCEPT ![w] = [wk EXCEPT !.read_buf = out.read_buf,
                                                            !.registered = out.reg,
                                                            !.alive = ~out.panic]]
            /\ sockets' = [f \in DOMAIN sockets |->
                              IF f \in sent /\ sr = "ok"
                              THEN [sockets[f] EXCEPT !.queued = @ + 1]
                              ELSE sockets[f]]
    /\ UNCHANGED <<ring, health_conns, read_buf, registered, timers, now, alive, calls, hist>>

\* the network interface takes a datagram out of a send buffer
Transmit(f) ==
    /\ f \in DOMAIN sockets
    /\ sockets[f].queued > 0
    /\ sockets' = [sockets EXCEPT ![f].queued = @ - 1]
    /\ UNCHANGED <<ring, health_conns, read_buf, registered, timers, now, alive, calls, hist,
                   threads>>

\* main has read the configuration and opened the nodes' sockets; no worker runs
InitManager ==
    /\ threads = << >>
    /\ sockets = [f \in NodeFds |-> NewSocket]
    /\ ring = EmptyRing
    /\ health_conns = << >>
    /\ read_buf = << >>
    /\ registered = << >>
    /\ timers = 0
    /\ now = 0
    /\ alive = FALSE
    /\ calls = << >>
    /\ hist = << >>

NextManager ==
    \/ Run
    \/ \E w \in 1 .. Threads, rr \in RecvResults(Datagrams) : WorkerReady(w, rr)
    \/ \E f \in NodeFds : Transmit(f)

SpecManager == InitManager /\ [][NextManager]_vars

\* the descriptors a worker holds
WorkerFds(wk) ==
    {wk.server} \cup {wk.streams[c] : c \in DOMAIN wk.streams}
                \cup {wk.nodes[n].fd : n \in DOMAIN wk.nodes}

\* what belongs to worker v: its ring, counters, states and buffer, and the
\* condition of the sockets it sends, probes and receives through
WorkerView(v) ==
    [worker |-> threads[v],
     socks  |-> [f \in WorkerFds(threads[v]) |-> sockets[f]]]

(***************************************************************************)
(* What the calls of the last handler show.                                *)
(***************************************************************************)
Range(f) == {f[x] : x \in DOMAIN f}
CallsOf(kind) == {i \in 1 .. Len(calls) : calls[i][1] = kind}
LastCallIs(call) == Len(calls) > 0 /\ calls[Len(calls)] = call
\* the bytes recvfrom handed to the handler that ran last: the first n bytes of
\* the datagram, n being at most the length of the scratch buffer
Received ==
    LET d == calls[1][2].dgram IN
    SubSeq(d, 1, IF Len(d) < ReadBufLen THEN Len(d) ELSE ReadBufLen)
IngressArmed ==
    registered[SERVER].armed /\ is_readable(registered[SERVER].interest)
NodeOf(c) == health_conns[c].node
\* the keys looked up when the ring before a tick is compared with the ring after
KeySample == UNION {[1 .. n -> {97, 98}] : n \in 0 .. MaxKeyLen}
\* the socket a datagram is sent to by the ingress handler, if it sends
RouteOf(buf, dgram, r) ==
    LET got == Recvfrom(buf, dgram)
        p   == IF got.n = 0 THEN [calls |-> << >>] ELSE parse(got.buf, got.n, r, "ok") IN
    IF Len(p.calls) = 2 THEN Some(p.calls[2][2]) ELSE None

(***************************************************************************)
(* The claims.                                                             *)
(***************************************************************************)

\* C1: once a tick has run after three successive replies of a backend that do
\* not start with "health: up" (and no healthy reply since), however old the
\* health connection is, the backend is absent from the ring.
C1_EvictionAfterThreeFailures ==
    \A c \in DOMAIN hist : hist[c].due => ~RingHas(ring, NodeOf(c))

\* C2: a backend that is absent from the ring and has then answered N >= 1
\* probes with "health: up" is back in the ring once N + 1 ticks have run
\* (N is at most MaxSuccess here, so after MaxSuccess + 1 ticks at the latest).
C2_Reinstatement ==
    \A c \in DOMAIN hist : hist[c].up_ticks > MaxSuccess => RingHas(ring, NodeOf(c))

\* C3: a tick removes from the ring the backend of every connection whose
\* failure count exceeds 2 and resets that count to 0; it does not remove the
\* backend of a connection whose count is at most 2; and when every backend it
\* evicts is already absent, the ring stays as it was.
C3_EvictionRule ==
    [][Timeout =>
         /\ \A c \in Tokens :
               /\ health_conns[c].failure > FAILURE_LIMIT
                     => /\ ~RingHas(ring', NodeOf(c))
                        /\ health_conns'[c].failure = 0
               /\ (health_conns[c].failure <= FAILURE_LIMIT /\ RingHas(ring, NodeOf(c)))
                     => RingHas(ring', NodeOf(c))
         /\ (\A c \in Tokens : health_conns[c].failure > FAILURE_LIMIT
                                  => ~RingHas(ring, NodeOf(c)))
               => ring' = ring]_vars

\* a tick has just run and a backend it evicted is absent, its count reset
C3_Witness ==
    /\ LastCallIs(<<"timeout_ms">>)
    /\ \E c \in Tokens : ~RingHas(ring, NodeOf(c)) /\ health_conns[c].failure = 0

\* C4: the bytes handed to the backend's sendto are exactly the n bytes that
\* recvfrom handed to the handler, in order.
C4_VerbatimForward ==
    \A i \in CallsOf("sendto") : Len(Received) > 0 /\ calls[i][4] = Received

\* a datagram shorter than the scratch buffer was forwarded while the buffer
\* still held a byte of an earlier datagram behind it
C4_Witness ==
    /\ \E i \in CallsOf("sendto") : Len(calls[i][4]) < ReadBufLen
    /\ read_buf[ReadBufLen] # 0

\* C5: the key looked up in the ring is the bytes of the datagram before its
\* first ':', the datagram goes to the backend the ring gives for that key, and
\* every datagram that starts with the same key and ':' is routed the same way.
C5_RoutingKey ==
    \A i \in CallsOf("get") :
        LET key == calls[i][2] IN
        /\ Len(key) < Len(Received)
        /\ SubSeq(Received, 1, Len(key)) = key
        /\ Received[Len(key) + 1] = COLON
        /\ \A j \in 1 .. Len(key) : key[j] # COLON
        /\ \A j \in CallsOf("sendto") :
              \E n \in DOMAIN Nodes :
                  /\ RingGet(ring, key) = Some(n)
                  /\ calls[j][2] = Nodes[n].sock.fd
                  /\ calls[j][3] = Nodes[n].sock.target
        /\ \A d \in Datagrams :
              (Len(d) > Len(key) /\ SubSeq(d, 1, Len(key) + 1) = key \o <<COLON>>)
                 => RouteOf(read_buf, d, ring) = RouteOf(read_buf, Received, ring)

\* a datagram with a non-empty key and a second ':' behind the first was forwarded
C5_Witness ==
    /\ CallsOf("sendto") # {}
    /\ \E i \in CallsOf("get") :
          /\ Len(calls[i][2]) > 0
          /\ \E j \in Len(calls[i][2]) + 2 .. Len(Received) : Received[j] = COLON

\* C6: handling a datagram that holds no ':' sends nothing, leaves the ring and
\* the health connections as they were, does not end the worker, and leaves the
\* ingress socket armed for readable.
C6_MalformedDropped ==
    [][\A rr \in RecvResults(Datagrams) :
          (/\ rr.kind = "data"
           /\ COLON \notin Range(rr.dgram)
           /\ ServerReady({"readable"}, rr, "ok"))
             => /\ CallsOf("sendto")' = {}
                /\ ring' = ring
                /\ health_conns' = health_conns
                /\ alive'
                /\ IngressArmed']_vars

\* C7: when the send to the selected backend gives an error or NotReady, the
\* worker keeps running, the ring is unchanged and the ingress socket is armed
\* for readable again.
C7_SendFailureTolerated ==
    [][\A rr \in RecvResults(Datagrams), sr \in {"err", "notready"} :
          (Sends(read_buf, ring, rr) /\ ServerReady({"readable"}, rr, sr))
             => /\ alive'
                /\ ring' = ring
                /\ IngressArmed']_vars

\* C8: in every state of a live worker the ingress socket is armed for readable
\* (whatever recvfrom gave to the handlers that ran).
C8_IngressArmed == alive => IngressArmed

\* C9: a tick leaves every sampled key that was routed to a backend it does not
\* evict on that same backend.
C9_MinimalDisruption ==
    [][Timeout =>
         \A k \in KeySample :
            LET before == RingGet(ring, k) IN
            (/\ before # None
             /\ \A c \in Tokens : health_conns[c].failure > FAILURE_LIMIT
                                     => NodeOf(c) # before[1])
               => RingGet(ring', k) = before]_vars

\* a tick has just run and one of the two backends is left in the ring
C9_Witness ==
    /\ LastCallIs(<<"timeout_ms">>)
    /\ \E c, d \in Tokens : RingHas(ring, NodeOf(c)) /\ ~RingHas(ring, NodeOf(d))
    /\ \E k \in KeySample : RingGet(ring, k) # RingGet(RingOf(EmptyRing, NodeIds), k)

\* C10: an event with error or hup adds exactly 1 to the failure count, shuts
\* the socket down, closes the connection, writes and reads no probe and leaves
\* nothing armed; the next tick gives a closed connection a new socket, connects
\* it, registers it under the same token and takes it out of Closed.
C10_ErrorHupThenReconnect ==
    [][/\ \A c \in Tokens, ev \in {{"error"}, {"hup"}, {"readable", "hup"}} :
             ConnReady(c, ev, [kind |-> "notready"])
                => /\ health_conns'[c].failure = health_conns[c].failure + 1
                   /\ health_conns'[c].stream.shut
                   /\ health_conns'[c].state = "Closed"
                   /\ calls' = << <<"shutdown", c>> >>
                   /\ ~registered'[c].armed
       /\ Timeout
             => \A c \in Tokens :
                   health_conns[c].state = "Closed"
                      => /\ health_conns'[c].state = "Writing"
                         /\ ~health_conns'[c].stream.shut
                         /\ health_conns'[c].token = c
                         /\ registered'[c] = Registration(ALL, "oneshot")
                         /\ \E i \in CallsOf("socket")' :
                               /\ calls'[i] = <<"socket", c>>
                               /\ calls'[i + 1] = <<"connect", c, Nodes[NodeOf(c)].host,
                                                    Nodes[NodeOf(c)].adminport>>
                               /\ calls'[i + 2] = <<"register", c, ALL>>]_vars

\* an error or hup event has just closed a connection
C10_Witness ==
    \E c \in Tokens :
        /\ calls = << <<"shutdown", c>> >>
        /\ health_conns[c].state = "Closed"
        /\ health_conns[c].stream.shut
        /\ health_conns[c].failure > 0

\* C11: when the read of the reply on a health connection gives an error, the
\* failure count grows by 1, the socket is shut down and the connection is
\* Closed (so that the next tick reconnects it).
C11_ProbeErrorCounts ==
    [][\A c \in Tokens :
          (/\ health_conns[c].state = "Reading"
           /\ ConnReady(c, {"readable"}, [kind |-> "err"]))
             => /\ health_conns'[c].failure = health_conns[c].failure + 1
                /\ health_conns'[c].stream.shut
                /\ health_conns'[c].state = "Closed"]_vars

\* C12: a read of 0 bytes on a health connection changes neither count and
\* leaves the connection in the state it was in (Reading).
C12_ZeroByteRead ==
    [][\A c \in Tokens :
          (/\ health_conns[c].state = "Reading"
           /\ ConnReady(c, {"readable"}, [kind |-> "zero"]))
             => /\ health_conns'[c].failure = health_conns[c].failure
                /\ health_conns'[c].success = health_conns[c].success
                /\ health_conns'[c].state = health_conns[c].state]_vars

\* the interest an event can still be delivered for
ArmedInterest(reg) == IF reg.armed THEN reg.interest ELSE {}

\* C13: after the handler of a readiness event of a health connection, the
\* interest armed for its socket is the one that goes with its new state:
\* readable for Reading, writable for Writing, none for Closed.
C13_RegistrationDiscipline ==
    [][\A c \in Tokens, ev \in EventSets, rr \in ReadResults :
          ConnReady(c, ev, rr)
             => ArmedInterest(registered'[c]) = StateInterest(health_conns'[c].state)]_vars

\* C14: every step that changes the ring is a tick, and is neither the handling
\* of an ingress datagram (forwarded, without ':', or with a key the ring has no
\* backend for) nor the handling of a readiness event of a health connection:
\* those leave the ring as it was.
C14_RingFrame ==
    [][ring' # ring
          => /\ Timeout
             /\ ~(\E ev \in EventSets, rr \in RecvResults(SampleDatagrams), sr \in SendResults :
                     ServerReady(ev, rr, sr))
             /\ ~(\E c \in Tokens, ev \in EventSets, rr \in ReadResults :
                     ConnReady(c, ev, rr))]_vars

\* a datagram with a key has just been dropped by a worker whose ticks have
\* emptied the ring
C14_Witness ==
    /\ ring = EmptyRing
    /\ CallsOf("get") # {}
    /\ CallsOf("sendto") = {}
    /\ LastCallIs(<<"reregister", SERVER, StateInterest(proxy_state)>>)

\* C15: the handler of a datagram makes at most one send; the send goes to the
\* socket of the backend the ring gives for the datagram's key, a backend that
\* is in the ring; and with an empty ring nothing is sent and the worker goes on.
C15_OneTargetOneAttempt ==
    /\ Cardinality(CallsOf("sendto")) <= 1
    /\ \A i \in CallsOf("sendto") :
          \E g \in CallsOf("get"), n \in DOMAIN Nodes :
              /\ g < i
              /\ RingGet(ring, calls[g][2]) = Some(n)
              /\ RingHas(ring, n)
              /\ calls[i][2] = Nodes[n].sock.fd
              /\ calls[i][3] = Nodes[n].sock.target
    /\ (ring = EmptyRing /\ CallsOf("get") # {})
          => /\ CallsOf("sendto") = {}
             /\ alive
             /\ LastCallIs(<<"reregister", SERVER, StateInterest(proxy_state)>>)

\* a datagram has just been sent to the one backend the ticks have left in the
\* ring, and the send was not ready
C15_Witness ==
    /\ \E n \in DOMAIN Nodes : ~RingHas(ring, n)
    /\ \E i \in CallsOf("sendto") : calls[i][5] = "notready"

\* C16: while the worker runs there is exactly one pending tick timer, and
\* again and again the handler that ran last is a tick, which ended by
\* scheduling the next one, whatever the states of the health connections.
C16_PeriodicTick ==
    /\ [](alive => timers = 1)
    /\ []<>(alive => LastCallIs(<<"timeout_ms">>))

\* a tick has just run over one connection waiting for a reply and one whose
\* backend an earlier tick evicted, and one timer is pending
C16_Witness ==
    /\ LastCallIs(<<"timeout_ms">>)
    /\ timers = 1
    /\ \E c, d \in Tokens :
          /\ health_conns[c].state = "Reading"
          /\ ~RingHas(ring, NodeOf(d))
          /\ health_conns[d].failure > 0

\* C17: a datagram handled by one worker changes nothing that belongs to
\* another worker: not its ring, counters, states or buffer, and not the
\* condition of a socket it sends, probes or receives through.
C17_SharedNothing ==
    [][\A w \in DOMAIN threads, rr \in RecvResults(Datagrams) :
          WorkerReady(w, rr)
             => \A v \in DOMAIN threads \ {w} : WorkerView(v)' = WorkerView(v)]_vars

\* C18: between two successive ticks a health connection writes the probe at
\* most once, and failure + success grows by at most 1.
C18_OneVerdictPerTick ==
    \A c \in DOMAIN hist : hist[c].writes <= 1 /\ hist[c].verdicts <= 1

\* since the last tick a connection has written its probe and counted the
\* reply, and nothing is armed for it
C18_Witness ==
    \E c \in DOMAIN hist :
        /\ hist[c].writes = 1
        /\ hist[c].verdicts = 1
        /\ health_conns[c].state = "Writing"
        /\ ~registered[c].armed

\* C19: no step changes the instant the cool-down is measured from (next_retry,
\* set when the connection is created), and every tick that runs more than 30
\* seconds after that instant leaves the connection's failure count at 0.
C19_FrozenCoolDown ==
    [][/\ \A c \in Tokens : health_conns'[c].next_retry = health_conns[c].next_retry
       /\ Timeout
             => \A c \in Tokens :
                   now - health_conns[c].next_retry > COOL_DOWN
                      => health_conns'[c].failure = 0]_vars

\* a tick more than 30 seconds after startup has just reconnected a connection
\* that an error or hup had closed since the tick before, left its count at 0
\* and left its backend in the ring
C19_Witness ==
    /\ LastCallIs(<<"timeout_ms">>)
    /\ now > COOL_DOWN
    /\ \E c \in Tokens :
          /\ <<"socket", c>> \in Range(calls)
          /\ health_conns[c].failure = 0
          /\ RingHas(ring, NodeOf(c))

\* C20: a tick leaves a connection that is in Reading as it is (same state, same
\* socket, same registration, no call made for it); and as long as no event is
\* delivered for it, the connection stays in Reading, its failure count does not
\* grow and its backend stays in the ring.
C20_NoProbeTimeout ==
    [][\A c \in Tokens :
          (/\ health_conns[c].state = "Reading"
           /\ ~(\E ev \in EventSets, rr \in ReadResults : ConnReady(c, ev, rr)))
             => /\ health_conns'[c].state = "Reading"
                /\ health_conns'[c].stream = health_conns[c].stream
                /\ registered'[c] = registered[c]
                /\ health_conns'[c].failure <= health_conns[c].failure
                /\ health_conns'[c].success = health_conns[c].success
                /\ RingHas(ring, NodeOf(c)) => RingHas(ring', NodeOf(c))
                /\ Timeout => \A i \in DOMAIN calls' :
                                  Len(calls'[i]) > 1 => calls'[i][2] # c]_vars

\* a tick has just run, after some time has passed, over a connection that is
\* still waiting in Reading for the reply to its probe, readable armed
C20_Witness ==
    /\ LastCallIs(<<"timeout_ms">>)
    /\ now >= ClockStep
    /\ \E c \in Tokens :
          /\ health_conns[c].state = "Reading"
          /\ registered[c] = Registration(StateInterest("Reading"), "oneshot")
          /\ RingHas(ring, NodeOf(c))
          /\ \A i \in DOMAIN calls : Len(calls[i]) > 1 => calls[i][2] # c

====
